---------------------------- MODULE Spec2Model ----------------------------
(***************************************************************************)
(* A model of textual-astview: the ASTView tree projection                 *)
(* (widgets/astview.py), the location resolution of SourceInfo             *)
(* (widgets/source_info.py), the highlight composition of Source           *)
(* (widgets/source.py) and the debounced refresh of the main screen        *)
(* (app/screens/main.py).                                                  *)
(*                                                                         *)
(* Time is counted in milliseconds.  Node references are records           *)
(* [gen, id]: gen is the index of the ASTView instance in `views`, id is   *)
(* the index of the TreeNode in that view's node arena (the root is 1).    *)
(* A parent of 0 is Python's None.                                         *)
(***************************************************************************)
EXTENDS Integers, Sequences, FiniteSets, TLC

VARIABLES
    file,       \* MainDisplay._args.file: index into Files
    mounted,    \* has MainDisplay.on_mount run?
    views,      \* every ASTView ever created, oldest first; the last is in the DOM
    hasView,    \* is there an ASTView (and a Source) in the DOM?
    source,     \* the Source widget: _source_file, dark, _stylized_ranges
    scrolls,    \* the scroll_to_region requests of the latest Source.highlight call
    shown,      \* what NodeInfo shows: the node last given to NodeInfo.show
    rainbow,    \* MainDisplay.rainbow
    appDark,    \* App.dark
    refresh,    \* MainDisplay._refresh: index into timers, 0 for None
    timers,     \* every Timer made by set_timer, oldest first
    now,        \* the clock of the event loop, in ms
    runs,       \* log of the highlight_node / Source.highlight executions
    failure,    \* the exception that left a handler, "none" while there is none
    nEvents     \* number of user inputs handled so far

vars == << file, mounted, views, hasView, source, scrolls, shown, rainbow,
           appDark, refresh, timers, now, runs, failure, nEvents >>

-----------------------------------------------------------------------------
(* Bounds of the exploration. *)

\* the generated modules nest up to MaxNest classes around a chain of up to
\* MaxWord further nodes of any kind
MaxNest == 4
MaxWord == 3
\* user inputs (cursor moves, selections, toggles, file selections) per run
MaxEvents == 3
\* the longest word of a module an ASTView is reset to
MaxViewWord == 2
\* the clock stops advancing here
MaxTime == 600

-----------------------------------------------------------------------------
(* Python values. *)

\* Python's None where a location tuple is expected
NoLoc == << >>

\* ASTView._module when the parse failed (or the module is a directory)
NoModule == [t |-> "none"]

LOCATION_PROPS == << "lineno", "col_offset", "end_lineno", "end_col_offset" >>

Range(s) == { s[i] : i \in DOMAIN s }

\* the location attributes an ast node carries, as pairs of a name and a
\* value: those of LOCATION_PROPS at the positions in `which`, with the
\* values of `span`
Attrs(which, span) == { << LOCATION_PROPS[i], span[i] >> : i \in which }

\* hasattr(item, prop) and item.prop for a location attribute
HasAttr(item, prop) == \E a \in item.attrs : a[1] = prop
Attr(item, prop) == (CHOOSE a \in item.attrs : a[1] = prop)[2]

AllProps == 1..4
NoAttrs == Attrs({}, NoLoc)

\* an ast.AST instance: class name, _fields in declaration order with
\* their values, and the location attributes it has
Ast(kind, fields, attrs) ==
    [t |-> "ast", kind |-> kind, fields |-> fields, attrs |-> attrs]
Fld(name, value) == [name |-> name, value |-> value]
PyList(items) == [t |-> "list", items |-> items]
PyTuple(items) == [t |-> "tuple", items |-> items]
PyStr(s) == [t |-> "scalar", py |-> "str", v |-> s]
PyInt(s) == [t |-> "scalar", py |-> "int", v |-> s]
PyNone == [t |-> "scalar", py |-> "NoneType", v |-> "None"]

\* getattr(item, field)
GetAttr(item, field) ==
    LET i == CHOOSE i \in DOMAIN item.fields : item.fields[i].name = field
    IN  item.fields[i].value

\* repr(item) of a scalar: a str is quoted, anything else prints as it is
Repr(item) == IF item.py = "str" THEN "'" \o item.v \o "'" ELSE item.v

\* str(item) of a scalar
Str(item) == item.v

-----------------------------------------------------------------------------
(* The nodes of the Tree widget (textual.widgets.tree.TreeNode), as the    *)
(* code of ASTView builds them.  A subtree is a record of a node's label,  *)
(* data and allow_expand and of the subtrees of its children, in the order *)
(* in which they were added.                                               *)

RECURSIVE Concat(_)
\* the concatenation of a sequence of sequences
Concat(ss) == IF ss = << >> THEN << >> ELSE Head(ss) \o Concat(Tail(ss))

\* to_node.add(label, data=data): an expandable node; kids is what is
\* added to it afterwards
TreeNodeAdd(label, data, kids) ==
    [label |-> label, data |-> data, allow_expand |-> TRUE, kids |-> kids]

\* to_node.add_leaf(label, data=data): a node that cannot expand
TreeNodeAddLeaf(label, data) ==
    [label |-> label, data |-> data, allow_expand |-> FALSE, kids |-> << >>]

RECURSIVE Size(_)
RECURSIVE SizeBefore(_, _)
\* the number of nodes of a subtree, and of the first j - 1 of some subtrees
Size(t) == 1 + SizeBefore(t.kids, Len(t.kids) + 1)
SizeBefore(kids, j) ==
    IF j <= 1 THEN 0 ELSE SizeBefore(kids, j - 1) + Size(kids[j - 1])

RECURSIVE Arena(_, _, _)
\* the nodes of subtree t numbered from id in the order of their creation
\* (a node before its children, children in order), each with its parent
\* and the numbers of its children
Arena(t, parent, id) ==
    LET kid(j) == id + 1 + SizeBefore(t.kids, j)
    IN  << [label |-> t.label, data |-> t.data, parent |-> parent,
            allow_expand |-> t.allow_expand,
            children |-> [j \in 1..Len(t.kids) |-> kid(j)]] >>
        \o Concat([j \in 1..Len(t.kids) |-> Arena(t.kids[j], id, kid(j))])

-----------------------------------------------------------------------------
(* ASTView: the projection of a module's AST into the tree. *)

\* the classes whose nodes are labelled with the name they define
DefKinds == {"ClassDef", "FunctionDef", "AsyncFunctionDef"}

\* the ast.AST object a tree node holds as its data: what the widgets read
\* of it is its class and its location attributes
AstData(item) == [t |-> "ast", kind |-> item.kind, attrs |-> item.attrs]

\* base_node for ast.AST as it would be if it did not look at name_defs
base_node_ast_named(name_defs, item, kids) ==
    LET label == IF item.kind \in DefKinds
                 THEN (item.kind \o " ") \o ("(" \o GetAttr(item, "name").v \o ")")
                 ELSE item.kind
    IN  TreeNodeAdd(label, AstData(item), kids)

\* base_node registered for ast.AST: the label is the class name, with
\* " (name)" appended for a definition when name_defs is on
base_node_ast(name_defs, item, kids) ==
    LET label == IF name_defs /\ item.kind \in DefKinds
                 THEN (item.kind \o " ") \o ("(" \o GetAttr(item, "name").v \o ")")
                 ELSE item.kind
    IN  TreeNodeAdd(label, AstData(item), kids)

\* base_node registered for str: a node labelled with the field's name
base_node_str(item, kids) == TreeNodeAdd(item, [t |-> "field", v |-> item], kids)

\* maybe_add as it would be if only the empty list were left out
maybe_add_lists_only(value) ==
    IF value.t = "list" THEN value.items # << >> ELSE TRUE

\* maybe_add: an empty list or tuple is not added, anything else is
maybe_add(value) ==
    IF value.t \in {"list", "tuple"} THEN value.items # << >> ELSE TRUE

RECURSIVE add(_, _)
\* add as it would be if a list or tuple got a node of its own, with its
\* rows below it
add_wrapping(name_defs, item) ==
    IF item.t = "ast"
    THEN LET ofField(i) ==
                 LET field == item.fields[i].name
                     value == GetAttr(item, field)
                 IN  IF maybe_add(value)
                     THEN << base_node_str(field, add(name_defs, value)) >>
                     ELSE << >>
             node == base_node_ast(name_defs, item,
                                   Concat([i \in 1..Len(item.fields) |-> ofField(i)]))
         IN  IF item.fields # << >>
             THEN << node >>
             ELSE << [node EXCEPT !.allow_expand = FALSE] >>
    ELSE IF item.t \in {"list", "tuple"}
    THEN << TreeNodeAdd(item.t, [t |-> item.t],
                        Concat([i \in 1..Len(item.items) |-> add(name_defs, item.items[i])])) >>
    ELSE << TreeNodeAddLeaf(Repr(item), item) >>

\* ASTView.add(item, to_node), as the subtrees it adds to to_node, in order.
\* The ast.AST overload adds a node for the item and below it, for every
\* field that maybe_add accepts, a node for the field with the field's
\* value added to it; an item without fields cannot expand.  The default
\* adds every row of a list or tuple to to_node itself, and a leaf showing
\* repr(item) for anything else.
add(name_defs, item) ==
    IF item.t = "ast"
    THEN LET ofField(i) ==
                 LET field == item.fields[i].name
                     value == GetAttr(item, field)
                 IN  IF maybe_add(value)
                     THEN << base_node_str(field, add(name_defs, value)) >>
                     ELSE << >>
             node == base_node_ast(name_defs, item,
                                   Concat([i \in 1..Len(item.fields) |-> ofField(i)]))
         IN  IF item.fields # << >>
             THEN << node >>
             ELSE << [node EXCEPT !.allow_expand = FALSE] >>
    ELSE IF item.t \in {"list", "tuple"}
    THEN Concat([i \in 1..Len(item.items) |-> add(name_defs, item.items[i])])
    ELSE << TreeNodeAddLeaf(Repr(item), item) >>

\* the root of a Tree(label, data) with the subtrees kids added to it
TreeWith(label, data, kids) == Arena(TreeNodeAdd(label, data, kids), 0, 1)

\* ASTView._parse: the AST of the module, None when it does not parse
Parse(module) == module.ast

\* ASTView.__init__: a view that is not mounted yet
ASTViewInit(module, name_defs) ==
    [ name_defs   |-> name_defs,
      module_path |-> module.name,
      module      |-> IF module.is_dir THEN NoModule ELSE Parse(module),
      nodes       |-> TreeWith(module.name, [t |-> "path", v |-> module.name], << >>),
      cursor      |-> 0 ]

\* ASTView._populate_tree, run on Mount: add the AST below the root and
\* select the root
populate_tree(view) ==
    IF view.module # NoModule
    THEN [view EXCEPT !.nodes = TreeWith(view.nodes[1].label, view.nodes[1].data,
                                         add(view.name_defs, view.module)),
                      !.cursor = 1]
    ELSE view

\* an ASTView as it is once mounted
MountedView(module, name_defs) == populate_tree(ASTViewInit(module, name_defs))

\* reset as it would be if it did not parse the new module
reset_no_parse(view, module) ==
    IF module.is_dir
    THEN view
    ELSE populate_tree([view EXCEPT
                          !.nodes  = TreeWith(module.name,
                                              [t |-> "path", v |-> module.name], << >>),
                          !.cursor = 0])

\* ASTView.reset(module): nothing for a directory; else the module is
\* parsed, Tree.reset gives the tree a fresh root with the module's name
\* and path (and no cursor), and the tree is populated again
reset(view, module) ==
    IF module.is_dir
    THEN view
    ELSE populate_tree([view EXCEPT
                          !.module = Parse(module),
                          !.nodes  = TreeWith(module.name,
                                              [t |-> "path", v |-> module.name], << >>),
                          !.cursor = 0])

\* ASTView.module_path
module_path(view) == view.module_path

-----------------------------------------------------------------------------
(* SourceInfo: where in the file a tree node is. *)

\* has_location: the node's data is an ast.AST with every one of
\* LOCATION_PROPS as an attribute
has_location(nodes, node) ==
    /\ nodes[node].data.t = "ast"
    /\ \A i \in DOMAIN LOCATION_PROPS : HasAttr(nodes[node].data, LOCATION_PROPS[i])

\* file_location_of as it would be without the step to the parent
file_location_of_own(nodes, node) ==
    IF has_location(nodes, node)
    THEN LET item == nodes[node].data
         IN  << Attr(item, "lineno"), Attr(item, "col_offset"),
                Attr(item, "end_lineno"), Attr(item, "end_col_offset") >>
    ELSE NoLoc

RECURSIVE file_location_of(_, _)
\* file_location_of: the node's own location, else its parent's, else None
file_location_of(nodes, node) ==
    IF has_location(nodes, node)
    THEN LET item == nodes[node].data
         IN  << Attr(item, "lineno"), Attr(item, "col_offset"),
                Attr(item, "end_lineno"), Attr(item, "end_col_offset") >>
    ELSE IF nodes[node].parent # 0
    THEN file_location_of(nodes, nodes[node].parent)
    ELSE NoLoc

RECURSIVE path_from_labels(_, _)
\* path_from as it would be if it yielded the label of every node
path_from_labels(nodes, node) ==
    << nodes[node].label >>
    \o (IF nodes[node].parent # 0
        THEN path_from_labels(nodes, nodes[node].parent)
        ELSE << >>)

RECURSIVE path_from(_, _)
\* path_from: for the node and then for every ancestor up to the root, the
\* class name of an ast.AST, the name of a Path, str() of anything else
path_from(nodes, node) ==
    LET data == nodes[node].data
        text == IF data.t = "ast" THEN data.kind
                ELSE IF data.t = "path" THEN data.v
                ELSE Str(data)
    IN  << text >>
        \o (IF nodes[node].parent # 0
            THEN path_from(nodes, nodes[node].parent)
            ELSE << >>)

RECURSIVE GroupByKeys(_)
\* the keys itertools.groupby yields: one per run of equal neighbours
GroupByKeys(s) ==
    IF Len(s) <= 1 THEN s
    ELSE IF s[1] = s[2] THEN GroupByKeys(Tail(s))
    ELSE << s[1] >> \o GroupByKeys(Tail(s))

RECURSIVE file_location_path_from(_, _)

\* _file_location_path_from: the node's location if it has one, then the
\* (public) path of its parent
_file_location_path_from(nodes, node) ==
    LET location == file_location_of(nodes, node)
    IN  (IF location # NoLoc THEN << location >> ELSE << >>)
        \o (IF nodes[node].parent # 0
            THEN file_location_path_from(nodes, nodes[node].parent)
            ELSE << >>)

\* file_location_path_from as it would be without the grouping
file_location_path_ungrouped(nodes, node) == _file_location_path_from(nodes, node)

\* file_location_path_from: the helper's locations, grouped (the helper's
\* list is computed once and then grouped)
file_location_path_from(nodes, node) ==
    CHOOSE keys \in { GroupByKeys(locations) :
                        locations \in { _file_location_path_from(nodes, node) } } : TRUE

-----------------------------------------------------------------------------
(* Source: the highlight of a node in the text of the file. *)

MAX_ANCESTOR == 5

COMPONENT_CLASSES ==
    { "source--ast-node-dark-mode-highlight",
      "source--ast-node-dark-mode-highlight-1",
      "source--ast-node-dark-mode-highlight-2",
      "source--ast-node-dark-mode-highlight-3",
      "source--ast-node-dark-mode-highlight-4",
      "source--ast-node-dark-mode-highlight-5",
      "source--ast-node-light-mode-highlight",
      "source--ast-node-light-mode-highlight-1",
      "source--ast-node-light-mode-highlight-2",
      "source--ast-node-light-mode-highlight-3",
      "source--ast-node-light-mode-highlight-4",
      "source--ast-node-light-mode-highlight-5" }

\* Source._highlight_style
_highlight_style(dark) ==
    ("source--ast-node-" \o (IF dark THEN "dark" ELSE "light")) \o "-mode-highlight"

Min(a, b) == IF a <= b THEN a ELSE b

\* itertools.islice(s, start, stop), with 0-based start and stop
ISlice(s, start, stop) == SubSeq(s, start + 1, Min(stop, Len(s)))

\* list(enumerate(s)): pairs of a 0-based index and the element
Enumerate(s) == [ i \in 1..Len(s) |-> << i - 1, s[i] >> ]

Reversed(s) == [ i \in 1..Len(s) |-> s[Len(s) + 1 - i] ]

\* Syntax.stylize_range(style, start, end), as the entry it appends to
\* _stylized_ranges
StylizedRange(style, start, end) == [style |-> style, start |-> start, end |-> end]

\* Region(y=line - 1, height=(end_line - line) + 1)
\* the Region as it would be if its height were the difference of the lines
Region_short(loc) == [y |-> loc[1] - 1, height |-> loc[3] - loc[1]]

Region(loc) == [y |-> loc[1] - 1, height |-> (loc[3] - loc[1]) + 1]

\* _highlight_ancestors as it would be without reversed(): nearest first
_highlight_ancestors_forward(nodes, node, dark) ==
    LET todo == Enumerate(
                    ISlice(file_location_path_from(nodes, node), 1, MAX_ANCESTOR + 1))
    IN  [ i \in 1..Len(todo) |->
            StylizedRange((_highlight_style(dark) \o "-") \o ToString(todo[i][1] + 1),
                          SubSeq(todo[i][2], 1, 2), SubSeq(todo[i][2], 3, 4)) ]

\* _highlight_ancestors: the ranges it appends, in the order it appends them
_highlight_ancestors(nodes, node, dark) ==
    LET todo == Reversed(Enumerate(
                    ISlice(file_location_path_from(nodes, node), 1, MAX_ANCESTOR + 1)))
    IN  [ i \in 1..Len(todo) |->
            StylizedRange((_highlight_style(dark) \o "-") \o ToString(todo[i][1] + 1),
                          SubSeq(todo[i][2], 1, 2), SubSeq(todo[i][2], 3, 4)) ]

\* Source.highlight as it would be with the node's own range applied before
\* those of its ancestors
highlight_primary_first(nodes, node, rb, dark) ==
    LET ancestors == IF rb THEN _highlight_ancestors(nodes, node, dark) ELSE << >>
        loc == file_location_of(nodes, node)
    IN  IF loc # NoLoc
        THEN [ ranges  |-> << StylizedRange(_highlight_style(dark),
                                            SubSeq(loc, 1, 2), SubSeq(loc, 3, 4)) >>
                           \o ancestors,
               scrolls |-> << Region(loc) >> ]
        ELSE [ ranges |-> ancestors, scrolls |-> << >> ]

\* Source.highlight as it would be if a node without a location scrolled the
\* view back to the first line
highlight_scrolls_home(nodes, node, rb, dark) ==
    LET ancestors == IF rb THEN _highlight_ancestors(nodes, node, dark) ELSE << >>
        loc == file_location_of(nodes, node)
    IN  IF loc # NoLoc
        THEN [ ranges  |-> Append(ancestors,
                                  StylizedRange(_highlight_style(dark),
                                                SubSeq(loc, 1, 2), SubSeq(loc, 3, 4))),
               scrolls |-> << Region(loc) >> ]
        ELSE [ ranges |-> ancestors, scrolls |-> << Region(<< 1, 0, 1, 0 >>) >> ]

\* Source.highlight as it would be without the reset of _stylized_ranges:
\* the ranges are added to those the Syntax has
highlight_keeps(nodes, node, rb, dark) ==
    LET ancestors == IF rb THEN _highlight_ancestors(nodes, node, dark) ELSE << >>
        loc == file_location_of(nodes, node)
    IN  IF loc # NoLoc
        THEN [ ranges  |-> source.stylized
                           \o Append(ancestors,
                                     StylizedRange(_highlight_style(dark),
                                                   SubSeq(loc, 1, 2), SubSeq(loc, 3, 4))),
               scrolls |-> << Region(loc) >> ]
        ELSE [ ranges |-> source.stylized \o ancestors, scrolls |-> << >> ]

\* Source.highlight: the new _stylized_ranges and the scroll requests made
highlight(nodes, node, rb, dark) ==
    LET ancestors == IF rb THEN _highlight_ancestors(nodes, node, dark) ELSE << >>
        loc == file_location_of(nodes, node)
    IN  IF loc # NoLoc
        THEN [ ranges  |-> Append(ancestors,
                                  StylizedRange(_highlight_style(dark),
                                                SubSeq(loc, 1, 2), SubSeq(loc, 3, 4))),
               scrolls |-> << Region(loc) >> ]
        ELSE [ ranges |-> ancestors, scrolls |-> << >> ]

-----------------------------------------------------------------------------
(* The modules explored: what ast.parse returns for them.                  *)
(*                                                                         *)
(* A module is generated from a word over {"S", "E", "N"}, one letter per  *)
(* level of nesting below Module, and the kind of its innermost node:      *)
(*   "S"  a ClassDef with a location of its own (name, empty bases,        *)
(*        keywords and decorator_list, and a body of the next level        *)
(*        followed by a Pass);                                             *)
(*   "E"  an Expr whose location equals that of the nearest enclosing      *)
(*        located node (as Expr and its value share one), holding the next *)
(*        level as its value;                                              *)
(*   "N"  a withitem, a class without location attributes, holding the     *)
(*        next level as context_expr and an empty Dict as optional_vars.   *)

\* the location of the node a level introduces
Span(level) == << level, 4 * (level - 1), 40 - level, 0 >>

PassAst(level) ==
    Ast("Pass", << >>, Attrs(AllProps, << 39 - level, 4 * level, 39 - level, 4 * level + 4 >>))

\* a Dict display {}: an expression whose fields are all empty lists
DictAst(level) ==
    Ast("Dict", << Fld("keys", PyList(<< >>)), Fld("values", PyList(<< >>)) >>,
        Attrs(AllProps, << 39 - level, 0, 39 - level, 2 >>))

LeafKinds == {"Name", "Constant"}

\* the innermost node: a Name with a (field-less, location-less) Load
\* context, or a Constant holding a tuple and carrying only lineno and
\* col_offset
LeafAst(leaf, level) ==
    CASE leaf = "Name" ->
            Ast("Name", << Fld("id", PyStr("x")), Fld("ctx", Ast("Load", << >>, NoAttrs)) >>,
                Attrs(AllProps, << level, 4 * (level - 1), level, 4 * (level - 1) + 1 >>))
      [] leaf = "Constant" ->
            Ast("Constant",
                << Fld("value", PyTuple(<< PyInt("1"), PyStr("a") >>)), Fld("kind", PyNone) >>,
                Attrs({1, 2}, << level, 4 * (level - 1) >>))

RECURSIVE Chain(_, _, _, _)
\* the AST of levels i.. of the word; cur is the location of the nearest
\* enclosing located node (NoLoc when there is none)
Chain(word, i, cur, leaf) ==
    IF i > Len(word) THEN LeafAst(leaf, i)
    ELSE CASE word[i] = "S" ->
                Ast("ClassDef",
                    << Fld("name", PyStr("C")),
                       Fld("bases", PyList(<< >>)),
                       Fld("keywords", PyList(<< >>)),
                       Fld("body", PyList(<< Chain(word, i + 1, Span(i), leaf), PassAst(i) >>)),
                       Fld("decorator_list", PyList(<< >>)) >>,
                    Attrs(AllProps, Span(i)))
           [] word[i] = "E" ->
                LET loc == IF cur = NoLoc THEN Span(i) ELSE cur
                IN  Ast("Expr", << Fld("value", Chain(word, i + 1, loc, leaf)) >>,
                        Attrs(AllProps, loc))
           [] word[i] = "N" ->
                Ast("withitem",
                    << Fld("context_expr", Chain(word, i + 1, cur, leaf)),
                       Fld("optional_vars", DictAst(i)) >>,
                    NoAttrs)

\* a Constant whose value is the empty tuple
EmptyTupleAst ==
    Ast("Constant", << Fld("value", PyTuple(<< >>)), Fld("kind", PyNone) >>,
        Attrs(AllProps, << 40, 0, 40, 2 >>))

\* ast.parse of a module holding the chain of the word and, after it, an
\* empty tuple
ModuleAst(word, leaf) ==
    Ast("Module",
        << Fld("body", PyList(<< Chain(word, 1, NoLoc, leaf), EmptyTupleAst >>)),
           Fld("type_ignores", PyList(<< >>)) >>,
        NoAttrs)

PyFile(name, tree) == [name |-> name, is_dir |-> FALSE, ast |-> tree]

\* a file that raises SyntaxError in ast.parse
BadFile == PyFile("bad.py", NoModule)

Letters == {"S", "E", "N"}
Words ==
    { [i \in 1..k |-> "S"] \o w :
        k \in 0..MaxNest, w \in UNION { [1..n -> Letters] : n \in 0..MaxWord } }

\* the modules the widgets are checked on
GeneratedFiles ==
    { PyFile("gen.py", ModuleAst(w, leaf)) : w \in Words, leaf \in LeafKinds }
    \cup { BadFile }

\* the paths the application is run on: a directory, a file that does not
\* parse, and a module
Files ==
    << [name |-> "pkg", is_dir |-> TRUE, ast |-> NoModule],
       BadFile,
       PyFile("a.py", ModuleAst(<< "S", "E" >>, "Name")) >>

-----------------------------------------------------------------------------
(* MainDisplay: the main screen and its debounced refresh. *)

\* UPDATE_DELAY, 0.2 s, in ms
UPDATE_DELAY == 200

\* the ASTView in the DOM and its index in views
CurGen == Len(views)
CurView == views[CurGen]

NodeRef(gen, id) == [gen |-> gen, id |-> id]

\* the Source widget as its __init__ leaves it
NewSource(path) == [source_file |-> path, dark |-> TRUE, stylized |-> << >>]

\* Source._populate_source: a fresh Syntax, which has no stylized ranges
populate_source(src) == [src EXCEPT !.stylized = << >>]

\* Source.show_file
show_file(src, new_file) == populate_source([src EXCEPT !.source_file = new_file])

\* Screen.set_timer(UPDATE_DELAY, partial(highlight_node, node)): the Timer
SetTimer(node) ==
    [ node |-> node, armedAt |-> now, deadline |-> now + UPDATE_DELAY,
      stopped |-> FALSE, stoppedAt |-> -1, fired |-> FALSE ]

\* Timer.stop() on timer k: it will not call back any more
TimerStop(ts, k) ==
    [ts EXCEPT ![k] = IF @.stopped THEN @
                      ELSE [@ EXCEPT !.stopped = TRUE, !.stoppedAt = now]]

\* a timer that is armed, not stopped and not yet fired
Pending(k) == ~timers[k].stopped /\ ~timers[k].fired

\* an entry of the log of highlight executions
Run(node, gen, via, timer, rb) ==
    [ node |-> node, at |-> now, via |-> via, timer |-> timer,
      viewGen |-> gen, rainbow |-> rb ]

\* highlight_node as it would be if it called Source.highlight(node) and
\* left the rainbow parameter at its default of False
highlight_node_plain(src, nodes, node, gen, via, timer) ==
    IF node.id = 0
    THEN /\ failure' = "AttributeError"
         /\ source' = src
         /\ UNCHANGED << shown, scrolls, runs >>
    ELSE LET hl == highlight(nodes, node.id, FALSE, src.dark)
         IN  /\ shown' = node
             /\ source' = [src EXCEPT !.stylized = hl.ranges]
             /\ scrolls' = hl.scrolls
             /\ runs' = Append(runs, Run(node, gen, via, timer, FALSE))
             /\ UNCHANGED failure

\* MainDisplay.highlight_node(node), on the Source src and the tree nodes
\* of the view the node belongs to, with view number gen in the DOM:
\* NodeInfo.show(node), then Source.highlight(node, self.rainbow).
\* A node of None has no data attribute to read.
highlight_node(src, nodes, node, gen, via, timer) ==
    IF node.id = 0
    THEN /\ failure' = "AttributeError"
         /\ source' = src
         /\ UNCHANGED << shown, scrolls, runs >>
    ELSE LET hl == highlight(nodes, node.id, rainbow, src.dark)
         IN  /\ shown' = node
             /\ source' = [src EXCEPT !.stylized = hl.ranges]
             /\ scrolls' = hl.scrolls
             /\ runs' = Append(runs, Run(node, gen, via, timer, rainbow))
             /\ UNCHANGED failure

\* on_tree_node_highlighted as it would be without the test of the tree
\* the message comes from
on_tree_node_highlighted_any_tree(tree_id, node) ==
    /\ timers' = Append(IF refresh # 0 THEN TimerStop(timers, refresh) ELSE timers,
                        SetTimer(node))
    /\ refresh' = Len(timers) + 1

\* on_tree_node_highlighted as it would be without the stop of the refresh
\* that is pending
on_tree_node_highlighted_no_stop(tree_id, node) ==
    IF tree_id # "ast-view"
    THEN UNCHANGED << refresh, timers >>
    ELSE /\ timers' = Append(timers, SetTimer(node))
         /\ refresh' = Len(timers) + 1

\* MainDisplay.on_tree_node_highlighted
on_tree_node_highlighted(tree_id, node) ==
    IF tree_id # "ast-view"
    THEN UNCHANGED << refresh, timers >>
    ELSE /\ timers' = Append(IF refresh # 0 THEN TimerStop(timers, refresh) ELSE timers,
                             SetTimer(node))
         /\ refresh' = Len(timers) + 1

\* on_tree_node_selected as it would be if it left the pending refresh alone
on_tree_node_selected_no_cancel(tree_id, node) ==
    IF tree_id # "ast-view"
    THEN UNCHANGED << refresh, timers, shown, source, scrolls, runs, failure >>
    ELSE /\ UNCHANGED << refresh, timers >>
         /\ highlight_node(source, CurView.nodes, node, CurGen, "selected", 0)

\* on_tree_node_selected as it would be if it forgot the pending refresh
\* without stopping it
on_tree_node_selected_forget(tree_id, node) ==
    IF tree_id # "ast-view"
    THEN UNCHANGED << refresh, timers, shown, source, scrolls, runs, failure >>
    ELSE /\ refresh' = 0
         /\ UNCHANGED timers
         /\ highlight_node(source, CurView.nodes, node, CurGen, "selected", 0)

\* MainDisplay.on_tree_node_selected
on_tree_node_selected(tree_id, node) ==
    IF tree_id # "ast-view"
    THEN UNCHANGED << refresh, timers, shown, source, scrolls, runs, failure >>
    ELSE /\ IF refresh # 0
            THEN /\ timers' = TimerStop(timers, refresh)
                 /\ refresh' = 0
            ELSE UNCHANGED << refresh, timers >>
         /\ highlight_node(source, CurView.nodes, node, CurGen, "selected", 0)

\* MainDisplay.watch_rainbow(new_value): highlight the cursor node, unless
\* there is no Source or ASTView (NoMatches)
watch_rainbow(new_value) ==
    IF ~hasView
    THEN UNCHANGED << source, scrolls, runs, failure >>
    ELSE IF CurView.cursor = 0
    THEN /\ failure' = "AttributeError"
         /\ source' = [source EXCEPT !.stylized = << >>]
         /\ UNCHANGED << scrolls, runs >>
    ELSE LET hl == highlight(CurView.nodes, CurView.cursor, new_value, source.dark)
         IN  /\ source' = [source EXCEPT !.stylized = hl.ranges]
             /\ scrolls' = hl.scrolls
             /\ runs' = Append(runs, Run(NodeRef(CurGen, CurView.cursor), CurGen,
                                         "rainbow", 0, new_value))
             /\ UNCHANGED failure

\* the nodes of a view that cursor and selection events are drawn from:
\* the root, its first child (the Module, neither with a location) and the
\* Pass, which has a location of its own within that of its class
EventNodes(view) ==
    { n \in DOMAIN view.nodes : n \in {1, 2} \/ view.nodes[n].label = "Pass" }

Ready == mounted /\ failure = "none"
Input == Ready /\ nEvents < MaxEvents

-----------------------------------------------------------------------------
(* The steps of the application. *)

Init ==
    /\ file \in DOMAIN Files
    /\ mounted = FALSE
    /\ views = << >>
    /\ hasView = FALSE
    /\ source = NewSource(0)
    /\ scrolls = << >>
    /\ shown = NodeRef(0, 0)
    /\ rainbow = FALSE
    /\ appDark = TRUE
    /\ refresh = 0
    /\ timers = << >>
    /\ now = 0
    /\ runs = << >>
    /\ failure = "none"
    /\ nEvents = 0

\* compose and on_mount of the screen: with a file, an ASTView and a Source
\* are composed and _init_tree highlights the root; with a directory only
\* the DirectoryTree is there
OnMount ==
    /\ ~mounted
    /\ mounted' = TRUE
    /\ IF ~Files[file].is_dir
       THEN /\ views' = << MountedView(Files[file], TRUE) >>
            /\ hasView' = TRUE
            /\ highlight_node(NewSource(file), views'[1].nodes, NodeRef(1, 1), 1, "init", 0)
       ELSE UNCHANGED << views, hasView, source, scrolls, shown, runs, failure >>
    /\ UNCHANGED << file, rainbow, appDark, refresh, timers, now, nEvents >>

\* the cursor of the AST view moves to node n: Tree.NodeHighlighted.  (The
\* select_node(root) of _populate_tree moves the cursor of a fresh view to
\* its root; the message the Tree may post for that reaches the screen as
\* this step, for node 1, at some time after the view was mounted.)
CursorMoved ==
    /\ Input /\ hasView
    /\ \E n \in EventNodes(CurView) :
          /\ views' = [views EXCEPT ![CurGen].cursor = n]
          /\ on_tree_node_highlighted("ast-view", NodeRef(CurGen, n))
    /\ nEvents' = nEvents + 1
    /\ UNCHANGED << file, mounted, hasView, source, scrolls, shown, rainbow,
                    appDark, now, runs, failure >>

\* node n of the AST view is chosen (enter or a click): Tree.NodeSelected
NodeChosen ==
    /\ Input /\ hasView
    /\ \E n \in EventNodes(CurView) :
          /\ views' = [views EXCEPT ![CurGen].cursor = n]
          /\ on_tree_node_selected("ast-view", NodeRef(CurGen, n))
    /\ nEvents' = nEvents + 1
    /\ UNCHANGED << file, mounted, hasView, rainbow, appDark, now >>

\* the cursor of the directory tree moves: Tree.NodeHighlighted of another tree
DirCursorMoved ==
    /\ Input
    /\ on_tree_node_highlighted("", NodeRef(0, 0))
    /\ nEvents' = nEvents + 1
    /\ UNCHANGED << file, mounted, views, hasView, source, scrolls, shown,
                    rainbow, appDark, now, runs, failure >>

\* a node of the directory tree is chosen: Tree.NodeSelected of another tree
DirNodeChosen ==
    /\ Input
    /\ on_tree_node_selected("", NodeRef(0, 0))
    /\ nEvents' = nEvents + 1
    /\ UNCHANGED << file, mounted, views, hasView, rainbow, appDark, now >>

\* the timer as it would be if it were an interval (set_interval): it calls
\* highlight_node and stays armed, for the delay after this one
TimerFireRepeating ==
    /\ Ready
    /\ \E k \in DOMAIN timers :
          /\ Pending(k)
          /\ now = timers[k].deadline
          /\ timers' = [timers EXCEPT ![k].deadline = @ + UPDATE_DELAY]
          /\ highlight_node(source, views[timers[k].node.gen].nodes, timers[k].node,
                            CurGen, "timer", k)
    /\ UNCHANGED << file, mounted, views, hasView, rainbow, appDark, refresh,
                    now, nEvents >>

\* the debounce timer k reaches its deadline and calls highlight_node
TimerFire ==
    /\ Ready
    /\ \E k \in DOMAIN timers :
          /\ Pending(k)
          /\ now = timers[k].deadline
          /\ timers' = [timers EXCEPT ![k].fired = TRUE]
          /\ highlight_node(source, views[timers[k].node.gen].nodes, timers[k].node,
                            CurGen, "timer", k)
    /\ UNCHANGED << file, mounted, views, hasView, rainbow, appDark, refresh,
                    now, nEvents >>

\* action_toggle_rainbow, and watch_rainbow with it
ToggleRainbow ==
    /\ Input
    /\ rainbow' = ~rainbow
    /\ watch_rainbow(~rainbow)
    /\ nEvents' = nEvents + 1
    /\ UNCHANGED << file, mounted, views, hasView, shown, appDark, refresh,
                    timers, now >>

\* action_toggle_dark: the Source follows the app (its watch_dark rebuilds
\* the Syntax when its value changes), then the cursor node is highlighted;
\* without a Source nothing else happens (NoMatches)
ToggleDark ==
    /\ Input
    /\ appDark' = ~appDark
    /\ IF hasView
       THEN LET src == IF source.dark # ~appDark
                       THEN populate_source([source EXCEPT !.dark = ~appDark])
                       ELSE source
            IN  highlight_node(src, CurView.nodes, NodeRef(CurGen, CurView.cursor),
                               CurGen, "dark", 0)
       ELSE UNCHANGED << source, scrolls, shown, runs, failure >>
    /\ nEvents' = nEvents + 1
    /\ UNCHANGED << file, mounted, views, hasView, rainbow, refresh, timers, now >>

\* on_directory_tree_file_selected: a fresh ASTView replaces the one in the
\* DOM (or is mounted with a new Source), the Source shows the file and
\* _init_tree highlights the new root
FileSelected ==
    /\ Input
    /\ \E path \in DOMAIN Files :
          /\ ~Files[path].is_dir
          /\ file' = path
          /\ views' = Append(views, MountedView(Files[path], TRUE))
          /\ highlight_node(show_file(IF hasView THEN source ELSE NewSource(path), path),
                            views'[CurGen + 1].nodes, NodeRef(CurGen + 1, 1),
                            CurGen + 1, "init", 0)
    /\ hasView' = TRUE
    /\ nEvents' = nEvents + 1
    /\ UNCHANGED << mounted, rainbow, appDark, refresh, timers, now >>

\* the delays between two steps that are not a wait for the timer
Delays == {50}

\* time passes while a timer is pending, never beyond its deadline (with no
\* timer pending the passing of time changes nothing but the clock)
Advance ==
    /\ Ready
    /\ \E d \in Delays :
          /\ now + d <= MaxTime
          /\ \E k \in DOMAIN timers : Pending(k)
          /\ \A k \in DOMAIN timers : Pending(k) => now + d <= timers[k].deadline
          /\ now' = now + d
    /\ UNCHANGED << file, mounted, views, hasView, source, scrolls, shown,
                    rainbow, appDark, refresh, timers, runs, failure, nEvents >>

\* time passes until the earliest deadline of a pending timer
AdvanceToDeadline ==
    /\ Ready
    /\ \E k \in DOMAIN timers :
          /\ Pending(k)
          /\ now < timers[k].deadline
          /\ \A j \in DOMAIN timers : Pending(j) => timers[k].deadline <= timers[j].deadline
          /\ now' = timers[k].deadline
    /\ UNCHANGED << file, mounted, views, hasView, source, scrolls, shown,
                    rainbow, appDark, refresh, timers, runs, failure, nEvents >>

Next ==
    \/ OnMount
    \/ CursorMoved
    \/ NodeChosen
    \/ DirCursorMoved
    \/ DirNodeChosen
    \/ TimerFire
    \/ ToggleRainbow
    \/ ToggleDark
    \/ FileSelected
    \/ Advance
    \/ AdvanceToDeadline

Spec == Init /\ [][Next]_vars

\* the application with its event loop running: the clock reaches the
\* deadline of a pending timer, and a timer that is due calls back
SpecLive == Spec /\ WF_vars(AdvanceToDeadline) /\ WF_vars(TimerFire)

-----------------------------------------------------------------------------
(* The widgets on their own: an ASTView mounted for one of the generated   *)
(* modules and a Source, on which Source.highlight is called once for a    *)
(* node of the tree.                                                       *)

InitWidgets ==
    /\ file = 0
    /\ mounted = TRUE
    /\ \E f \in GeneratedFiles : views = << MountedView(f, TRUE) >>
    /\ hasView = TRUE
    /\ \E dark \in BOOLEAN : source = [NewSource(0) EXCEPT !.dark = dark]
    /\ scrolls = << >>
    /\ shown = NodeRef(0, 0)
    /\ rainbow = FALSE
    /\ appDark = TRUE
    /\ refresh = 0
    /\ timers = << >>
    /\ now = 0
    /\ runs = << >>
    /\ failure = "none"
    /\ nEvents = 0

\* Source.highlight(node, rb) for a node of the tree
SourceHighlight ==
    /\ runs = << >>
    /\ \E n \in DOMAIN CurView.nodes, rb \in BOOLEAN :
          LET hl == highlight(CurView.nodes, n, rb, source.dark)
          IN  /\ source' = [source EXCEPT !.stylized = hl.ranges]
              /\ scrolls' = hl.scrolls
              /\ runs' = << Run(NodeRef(1, n), 1, "call", 0, rb) >>
    /\ UNCHANGED << file, mounted, views, hasView, shown, rainbow, appDark,
                    refresh, timers, now, failure, nEvents >>

NextWidgets == SourceHighlight

SpecWidgets == InitWidgets /\ [][NextWidgets]_vars

-----------------------------------------------------------------------------
(* The ASTView on its own: a view is made for one of a family of modules,  *)
(* with name_defs on or off, and mounted; then reset is called on it, any  *)
(* number of times, for a module of the family or for a directory.  In     *)
(* file is kept the last module that was loaded.                           *)

\* def f(): pass  /  async def g(): pass, at the given line
DefAst(kind, name, line) ==
    Ast(kind,
        << Fld("name", PyStr(name)),
           Fld("args", Ast("arguments",
                           << Fld("posonlyargs", PyList(<< >>)), Fld("args", PyList(<< >>)),
                              Fld("vararg", PyNone), Fld("kwonlyargs", PyList(<< >>)),
                              Fld("kw_defaults", PyList(<< >>)), Fld("kwarg", PyNone),
                              Fld("defaults", PyList(<< >>)) >>,
                           NoAttrs)),
           Fld("body", PyList(<< Ast("Pass", << >>,
                                     Attrs(AllProps, << line, 9, line, 13 >>)) >>)),
           Fld("decorator_list", PyList(<< >>)),
           Fld("returns", PyNone),
           Fld("type_comment", PyNone) >>,
        Attrs(AllProps, << line, 0, line, 13 >>))

\* ast.parse of a module of a function, a coroutine function and an import
\* (whose alias has a name but is no definition)
DefsModule ==
    Ast("Module",
        << Fld("body",
               PyList(<< DefAst("FunctionDef", "f", 1),
                         DefAst("AsyncFunctionDef", "g", 2),
                         Ast("Import",
                             << Fld("names",
                                    PyList(<< Ast("alias",
                                                  << Fld("name", PyStr("os")),
                                                     Fld("asname", PyNone) >>,
                                                  Attrs(AllProps, << 3, 7, 3, 9 >>)) >>)) >>,
                             Attrs(AllProps, << 3, 0, 3, 9 >>)) >>)),
           Fld("type_ignores", PyList(<< >>)) >>,
        NoAttrs)

RECURSIVE Join(_)
\* the letters of a word as one string
Join(word) == IF word = << >> THEN "" ELSE Head(word) \o Join(Tail(word))

\* the modules a view is made for and reset to: one per word of at most
\* MaxViewWord letters, each under a name of its own, a file that does not
\* parse and a module of definitions
ViewFiles ==
    { PyFile(("m" \o Join(w)) \o ".py", ModuleAst(w, "Name")) :
        w \in UNION { [1..n -> Letters] : n \in 0..MaxViewWord } }
    \cup { BadFile, PyFile("defs.py", DefsModule) }

\* a directory
Directory == [name |-> "pkg", is_dir |-> TRUE, ast |-> NoModule]

InitView ==
    /\ file \in ViewFiles
    /\ mounted = TRUE
    /\ \E name_defs \in BOOLEAN : views = << MountedView(file, name_defs) >>
    /\ hasView = TRUE
    /\ source = NewSource(0)
    /\ scrolls = << >>
    /\ shown = NodeRef(0, 0)
    /\ rainbow = FALSE
    /\ appDark = TRUE
    /\ refresh = 0
    /\ timers = << >>
    /\ now = 0
    /\ runs = << >>
    /\ failure = "none"
    /\ nEvents = 0

\* ASTView.reset(module)
Reset ==
    /\ \E module \in ViewFiles \cup {Directory} :
          /\ views' = << reset(CurView, module) >>
          /\ file' = IF module.is_dir THEN file ELSE module
    /\ UNCHANGED << mounted, hasView, source, scrolls, shown, rainbow, appDark,
                    refresh, timers, now, runs, failure, nEvents >>

NextView == Reset

SpecView == InitView /\ [][NextView]_vars

-----------------------------------------------------------------------------
(* What the properties below are stated with. *)

\* the tree of the ASTView in the DOM
Nodes == CurView.nodes

RECURSIVE PathToRoot(_, _)
\* the nodes from node up to the root
PathToRoot(nodes, node) ==
    IF nodes[node].parent = 0 THEN << node >>
    ELSE << node >> \o PathToRoot(nodes, nodes[node].parent)

\* the span a node's own data carries: that of an AST node with all four
\* location fields, none (NoLoc) for any other node
OwnSpan(nodes, node) ==
    LET d == nodes[node].data
    IN  IF d.t = "ast"
           /\ {"lineno", "col_offset", "end_lineno", "end_col_offset"}
                 \subseteq { a[1] : a \in d.attrs }
        THEN << Attr(d, "lineno"), Attr(d, "col_offset"),
                Attr(d, "end_lineno"), Attr(d, "end_col_offset") >>
        ELSE NoLoc

\* the span of the nearest node of a path that carries one, NoLoc without
NearestSpan(nodes, path) ==
    LET with == { i \in DOMAIN path : OwnSpan(nodes, path[i]) # NoLoc }
    IN  IF with = {} THEN NoLoc
        ELSE OwnSpan(nodes, path[CHOOSE i \in with : \A j \in with : i <= j])

RECURSIVE PickFrom(_, _, _)
\* the elements of s at the indices in keep, in order (from index i on)
PickFrom(s, keep, i) ==
    IF i > Len(s) THEN << >>
    ELSE (IF i \in keep THEN << s[i] >> ELSE << >>) \o PickFrom(s, keep, i + 1)
Pick(s, keep) == PickFrom(s, keep, 1)

\* s with every run of equal neighbours collapsed into one element
CollapseRuns(s) == Pick(s, { i \in DOMAIN s : i = 1 \/ s[i] # s[i - 1] })

\* the resolved span of every node from node to the root, none omitted
NaiveSpans(nodes, node) ==
    LET path == PathToRoot(nodes, node)
        all == [ i \in DOMAIN path |-> file_location_of(nodes, path[i]) ]
    IN  Pick(all, { i \in DOMAIN all : all[i] # NoLoc })

\* the latest call of Source.highlight: its node, its rainbow flag and the
\* tree of its node
Called == runs # << >>
LastRun == runs[Len(runs)]
CalledNodes == views[LastRun.node.gen].nodes
CalledNode == LastRun.node.id

\* the nodes a state is examined for: the node of the latest call, the root
\* and the first node below it (under SpecWidgets every node of a tree is
\* the node of the call in some state)
Checked ==
    (IF Called /\ LastRun.node.gen = CurGen THEN {CalledNode} ELSE {})
    \cup { n \in DOMAIN Nodes : n <= 2 }

\* the primary style and the numbered styles of the Source
PrimaryStyle == IF source.dark THEN "source--ast-node-dark-mode-highlight"
                ELSE "source--ast-node-light-mode-highlight"
NumberedStyle(i) == (PrimaryStyle \o "-") \o ToString(i)
Numbered == { NumberedStyle(i) : i \in 1..MAX_ANCESTOR }

\* the style instruction of a span
Instruction(style, span) ==
    [style |-> style, start |-> << span[1], span[2] >>, end |-> << span[3], span[4] >>]

-----------------------------------------------------------------------------
(* C5: for every display node, file_location_of returns the node's own     *)
(* span when its payload is an AST node with all four location fields,     *)
(* else what it returns for the parent, and none for a root without a span *)
(* of its own; so it is the span of the nearest span-carrying node on the  *)
(* path to the root, or none when there is no such node.                   *)
C5_Resolve ==
    \A n \in Checked :
       /\ file_location_of(Nodes, n) =
             IF OwnSpan(Nodes, n) # NoLoc THEN OwnSpan(Nodes, n)
             ELSE IF Nodes[n].parent # 0 THEN file_location_of(Nodes, Nodes[n].parent)
             ELSE NoLoc
       /\ file_location_of(Nodes, n) = NearestSpan(Nodes, PathToRoot(Nodes, n))

\* a node was highlighted whose span is that of an ancestor at least two
\* levels up, and the primary instruction is for that span
C5_Witness ==
    /\ Called
    /\ OwnSpan(CalledNodes, CalledNode) = NoLoc
    /\ CalledNodes[CalledNode].parent # 0
    /\ OwnSpan(CalledNodes, CalledNodes[CalledNode].parent) = NoLoc
    /\ file_location_of(CalledNodes, CalledNode) # NoLoc
    /\ source.stylized # << >>
    /\ source.stylized[Len(source.stylized)] =
          Instruction(PrimaryStyle, file_location_of(CalledNodes, CalledNode))

(* C6: file_location_path_from never yields two consecutive equal spans,   *)
(* and it is the naive sequence of the resolved spans from the node to the *)
(* root (none omitted) with every run of equal spans collapsed into one.   *)
C6_AncestorSpans ==
    \A n \in Checked :
       LET S == file_location_path_from(Nodes, n)
       IN  /\ \A i \in 1..(Len(S) - 1) : S[i] # S[i + 1]
           /\ S = CollapseRuns(NaiveSpans(Nodes, n))

\* a node was highlighted in rainbow mode whose naive sequence repeats a
\* span and whose collapsed sequence still has several spans
C6_Witness ==
    /\ Called /\ LastRun.rainbow
    /\ LET naive == NaiveSpans(CalledNodes, CalledNode)
           S == file_location_path_from(CalledNodes, CalledNode)
       IN  /\ \E i \in 1..(Len(naive) - 1) : naive[i] = naive[i + 1]
           /\ Len(S) >= 3
           /\ Len(S) < Len(naive)
           /\ Len(source.stylized) = Len(S)

(* C7: a highlight without rainbow applies at most one style instruction,  *)
(* one with rainbow at most 6 (at most 5 numbered ones and 1 primary), and *)
(* a primary instruction is always the last one applied.                   *)
C7_InstructionBound ==
    Called =>
       LET R == source.stylized
       IN  /\ ~LastRun.rainbow => Len(R) <= 1
           /\ LastRun.rainbow => Len(R) <= 6
           /\ Cardinality({ i \in DOMAIN R : R[i].style \in Numbered }) <= 5
           /\ Cardinality({ i \in DOMAIN R : R[i].style = PrimaryStyle }) <= 1
           /\ \A i \in DOMAIN R : R[i].style = PrimaryStyle => i = Len(R)
           /\ \A i \in DOMAIN R : R[i].style \in Numbered \cup {PrimaryStyle}

\* a rainbow highlight applied 6 instructions, the last one the primary
C7_Witness ==
    /\ Called /\ LastRun.rainbow
    /\ Len(source.stylized) = 6
    /\ source.stylized[6].style = PrimaryStyle

(* C8: in rainbow mode, with S the ancestor spans of the node (S[0] its    *)
(* own), the numbered instructions are those of S[1] .. S[min(5, |S|-1)],  *)
(* S[i] with numbered style i, farthest ancestor first and nearest last,   *)
(* so that min(5, |S|-1) numbered instructions precede the primary one.    *)
C8_RainbowOrder ==
    (Called /\ LastRun.rainbow) =>
       LET S == CollapseRuns(NaiveSpans(CalledNodes, CalledNode))
           k == IF Len(S) = 0 THEN 0 ELSE Min(5, Len(S) - 1)
           R == source.stylized
       IN  /\ Len(R) = k + (IF Len(S) = 0 THEN 0 ELSE 1)
           /\ \A i \in 1..k : R[k + 1 - i] = Instruction(NumberedStyle(i), S[i + 1])
           /\ Len(S) > 0 => R[k + 1] = Instruction(PrimaryStyle, S[1])
           /\ \A i, j \in 1..k : i # j => R[i].style # R[j].style

\* a rainbow highlight of a node with more than 5 ancestor spans
C8_Witness ==
    /\ Called /\ LastRun.rainbow
    /\ Len(CollapseRuns(NaiveSpans(CalledNodes, CalledNode))) > 6
    /\ Len(source.stylized) = 6

\* a rainbow highlight of a node with 2 ancestor spans only
C8_WitnessFew ==
    /\ Called /\ LastRun.rainbow
    /\ Len(CollapseRuns(NaiveSpans(CalledNodes, CalledNode))) = 3
    /\ Len(source.stylized) = 3

(* C9: the highlight of a node without a resolvable span (neither it nor   *)
(* an ancestor carries one) applies no instruction and requests no scroll, *)
(* with rainbow on and off.                                                *)
C9_NoSpan ==
    (Called /\ NearestSpan(CalledNodes, PathToRoot(CalledNodes, CalledNode)) = NoLoc) =>
       /\ source.stylized = << >>
       /\ scrolls = << >>

\* a rainbow highlight of a node below the root that has no span, in a
\* tree that has nodes with spans
C9_Witness ==
    /\ Called /\ LastRun.rainbow
    /\ CalledNodes[CalledNode].parent # 0
    /\ NearestSpan(CalledNodes, PathToRoot(CalledNodes, CalledNode)) = NoLoc
    /\ \E n \in DOMAIN CalledNodes : OwnSpan(CalledNodes, n) # NoLoc
    /\ source.stylized = << >>

RECURSIVE AstItems(_)
\* the AST nodes of a value in the order of a depth-first walk: a node,
\* then those of its fields in declaration order; the elements of a
\* sequence in element order
AstItems(value) ==
    IF value.t = "ast"
    THEN << value >> \o Concat([i \in DOMAIN value.fields |-> AstItems(value.fields[i].value)])
    ELSE IF value.t \in {"list", "tuple"}
    THEN Concat([i \in DOMAIN value.items |-> AstItems(value.items[i])])
    ELSE << >>

\* the display nodes of AST nodes, in the order of their creation
AstNodes(nodes) == Pick([i \in DOMAIN nodes |-> i], { i \in DOMAIN nodes : nodes[i].data.t = "ast" })

\* is the value an empty list or tuple?
EmptySequence(value) == value.t \in {"list", "tuple"} /\ Len(value.items) = 0

\* the names of the fields of an AST node whose value is not an empty
\* sequence, in declaration order
ShownFields(item) ==
    LET names == [i \in DOMAIN item.fields |-> item.fields[i].name]
    IN  Pick(names, { i \in DOMAIN item.fields : ~EmptySequence(item.fields[i].value) })

(* C10: the children of the display node of every AST node that            *)
(* ASTView.add projects are one field-label node per field whose value is  *)
(* not an empty sequence, in field-declaration order, and nothing else: a  *)
(* field holding an empty list or tuple contributes no child at all.  (A   *)
(* highlight leaves the tree as it is, so the tree is examined before it.) *)
C10_FieldLabels ==
    (~Called /\ CurView.module # NoModule) =>
       LET items == AstItems(CurView.module)
           astNodes == AstNodes(Nodes)
       IN  /\ Len(astNodes) = Len(items)
           /\ \A k \in DOMAIN items :
                 LET node == Nodes[astNodes[k]]
                     names == ShownFields(items[k])
                 IN  /\ node.data.kind = items[k].kind
                     /\ Len(node.children) = Len(names)
                     /\ \A j \in DOMAIN names :
                           /\ Nodes[node.children[j]].data = [t |-> "field", v |-> names[j]]
                           /\ Nodes[node.children[j]].label = names[j]
                           /\ Nodes[node.children[j]].parent = astNodes[k]

\* a tree with the node of a ClassDef that has 5 fields, 3 of them empty
\* lists, and 2 children, with the node of a Dict whose 2 fields are both
\* empty lists and that has no child, and with the node of a Constant of
\* the empty tuple, whose only child is the label of its other field
C10_Witness ==
    /\ CurView.module # NoModule
    /\ \E n \in DOMAIN Nodes :
          /\ Nodes[n].data.t = "ast" /\ Nodes[n].data.kind = "Constant"
          /\ Len(Nodes[n].children) = 1
          /\ Nodes[Nodes[n].children[1]].label = "kind"
    /\ \E n \in DOMAIN Nodes :
          /\ Nodes[n].data.t = "ast" /\ Nodes[n].data.kind = "ClassDef"
          /\ Len(Nodes[n].children) = 2
    /\ \E n \in DOMAIN Nodes :
          /\ Nodes[n].data.t = "ast" /\ Nodes[n].data.kind = "Dict"
          /\ Nodes[n].children = << >>

-----------------------------------------------------------------------------
(* The debounce, under Spec. *)

\* the highlight_node executions a timer made
TimerRuns == { i \in DOMAIN runs : runs[i].via = "timer" }

\* has timer k executed highlight_node?
Executed(k) == timers[k].fired \/ \E i \in DOMAIN runs : runs[i].timer = k

(* C1: of the cursor-moved events of the AST view of which each arrives    *)
(* less than 200 ms after the one before, only the last has highlight_node *)
(* run for its node: the timer of an event that another event follows in   *)
(* less than 200 ms never executes, and a timer that executes does so      *)
(* exactly 200 ms after its event, for the node of its event, with no      *)
(* cursor-moved event in between; until then time never passes the         *)
(* deadline of a pending timer.                                            *)
C1_Debounce ==
    /\ \A k, j \in DOMAIN timers :
          (k < j /\ timers[j].armedAt - timers[k].armedAt < 200) => ~Executed(k)
    /\ \A i \in TimerRuns :
          LET k == runs[i].timer
          IN  /\ runs[i].node = timers[k].node
              /\ runs[i].at = timers[k].armedAt + 200
              /\ timers[k].fired
              /\ \A j \in DOMAIN timers : j > k => timers[j].armedAt >= runs[i].at
    /\ \A k \in DOMAIN timers : Pending(k) => now <= timers[k].armedAt + 200

\* three cursor-moved events for three nodes, 50 ms apart: highlight_node
\* has run by a timer for the third only, 200 ms after the third
C1_Witness ==
    /\ Len(timers) = 3
    /\ timers[2].armedAt = timers[1].armedAt + 50
    /\ timers[3].armedAt = timers[2].armedAt + 50
    /\ Cardinality({ timers[k].node : k \in 1..3 }) = 3
    /\ ~Executed(1) /\ ~Executed(2)
    /\ \E i \in TimerRuns :
          /\ TimerRuns = {i}
          /\ runs[i].timer = 3
          /\ runs[i].node = timers[3].node
          /\ runs[i].at = timers[3].armedAt + 200
          /\ shown = timers[3].node

(* C2: a node-chosen event for node M of the AST view runs highlight_node  *)
(* for M within its handling, at the time of the event, and leaves no      *)
(* timer pending and no refresh booked, whatever was pending before; and a *)
(* timer that was stopped while it was pending executes highlight_node in  *)
(* no later step.                                                          *)
C2_NodeChosen ==
    [][ /\ NodeChosen =>
            /\ refresh' = 0
            /\ \A k \in DOMAIN timers' : timers'[k].stopped \/ timers'[k].fired
            /\ \A k \in DOMAIN timers : Pending(k) => ~timers'[k].fired
            /\ Len(runs') = Len(runs) + 1
            /\ LET r == runs'[Len(runs')]
               IN  /\ r.via = "selected" /\ r.at = now /\ now' = now
                   /\ r.node = NodeRef(CurGen, CurView'.cursor)
                   /\ shown' = r.node
        /\ \A k \in DOMAIN timers :
              (timers[k].stopped /\ ~timers[k].fired) =>
                 /\ timers'[k].stopped /\ ~timers'[k].fired
                 /\ \A i \in DOMAIN runs' : runs'[i].timer # k
      ]_vars

\* a node was chosen while the timer of a cursor-moved event for another
\* node was pending: highlight_node ran for the chosen node at once, and
\* the deadline of the stopped timer has passed without it executing
C2_Witness ==
    \E k \in DOMAIN timers, i \in DOMAIN runs :
       /\ runs[i].via = "selected"
       /\ timers[k].stopped
       /\ timers[k].stoppedAt = runs[i].at
       /\ timers[k].armedAt < runs[i].at
       /\ runs[i].at < timers[k].deadline
       /\ timers[k].node # runs[i].node
       /\ now >= timers[k].deadline
       /\ ~Executed(k)

(* C3: in every reachable state at most one timer is pending (armed, not   *)
(* stopped and not yet fired), the one the screen holds as its refresh;    *)
(* and a timer that was stopped before its deadline has not executed       *)
(* highlight_node.                                                         *)
C3_OnePending ==
    /\ Cardinality({ k \in DOMAIN timers : Pending(k) }) <= 1
    /\ \A k \in DOMAIN timers : Pending(k) => refresh = k
    /\ \A k \in DOMAIN timers :
          (timers[k].stopped /\ timers[k].stoppedAt < timers[k].deadline) => ~Executed(k)

\* after a reload, a timer is pending while the deadline of one that was
\* stopped before it has passed
C3_Witness ==
    /\ Len(views) >= 2
    /\ \E k \in DOMAIN timers : Pending(k)
    /\ \E k \in DOMAIN timers :
          /\ timers[k].stopped
          /\ timers[k].stoppedAt < timers[k].deadline
          /\ now >= timers[k].deadline

(* C15: no sequence of cursor moves, selections, toggles of rainbow and of  *)
(* dark mode and reloads makes highlight_node or Source.highlight raise,   *)
(* on a file that did not parse and with no cursor node included.          *)
C15_NoError == failure = "none"

(* C16: a timer that a cursor-moved event armed eventually executes        *)
(* highlight_node unless a later cursor-moved or node-chosen event stops   *)
(* it or a reload replaces the view of its node; it executes at most once, *)
(* for the node of its event and at its deadline, and the step in which it *)
(* executes leaves no timer pending; once it has executed it never does so *)
(* again.                                                                  *)
C16_DeadlineElapses ==
    /\ \A k \in 1..MaxEvents :
          (k \in DOMAIN timers /\ Pending(k))
             ~> (k \in DOMAIN timers
                   /\ (timers[k].stopped \/ Executed(k) \/ timers[k].node.gen # CurGen))
    /\ [][ \A i \in DOMAIN runs' :
              (i > Len(runs) /\ runs'[i].timer # 0) =>
                 LET k == runs'[i].timer
                 IN  /\ Pending(k) /\ now = timers[k].deadline
                     /\ timers'[k].fired
                     /\ runs'[i].node = timers[k].node
                     /\ \A j \in DOMAIN runs : runs[j].timer # k
                     /\ \A j \in DOMAIN timers' : timers'[j].stopped \/ timers'[j].fired
         ]_vars

\* a timer was armed for a node, nothing stopped it, and it has executed
\* highlight_node once, 200 ms after its event, leaving no timer pending
C16_Witness ==
    /\ Len(timers) = 1
    /\ timers[1].fired /\ ~timers[1].stopped
    /\ Cardinality({ i \in DOMAIN runs : runs[i].timer = 1 }) = 1
    /\ now = timers[1].armedAt + 200
    /\ shown = timers[1].node
    /\ timers[1].node.id # 1

\* the style instructions of a highlight of a node: with rainbow, those of
\* up to MAX_ANCESTOR ancestor spans, farthest first; then that of the
\* node's span, if it resolves to one
Emitted(nodes, node, rb) ==
    LET S == CollapseRuns(NaiveSpans(nodes, node))
        k == IF rb /\ Len(S) > 0 THEN Min(MAX_ANCESTOR, Len(S) - 1) ELSE 0
        own == NearestSpan(nodes, PathToRoot(nodes, node))
    IN  [ i \in 1..k |-> Instruction(NumberedStyle(k + 1 - i), S[k + 2 - i]) ]
        \o (IF own # NoLoc THEN << Instruction(PrimaryStyle, own) >> ELSE << >>)

(* C17: after any sequence of highlight calls the style ranges applied to  *)
(* the source are exactly those the most recent call emitted, none of an   *)
(* earlier call among them, also when the most recent call emitted none.   *)
C17_ClearsFirst ==
    (Called /\ failure = "none") =>
       source.stylized = Emitted(CalledNodes, CalledNode, LastRun.rainbow)

\* a highlight that emitted nothing followed, on the same view and the same
\* Syntax, one that emitted ranges: none is applied
C17_Witness ==
    /\ Len(runs) >= 2 /\ failure = "none"
    /\ LET last == runs[Len(runs)]
           prev == runs[Len(runs) - 1]
       IN  /\ last.via = "selected"
           /\ last.node.gen = prev.node.gen
           /\ last.viewGen = prev.viewGen
           /\ Emitted(views[prev.node.gen].nodes, prev.node.id, prev.rainbow) # << >>
           /\ Emitted(views[last.node.gen].nodes, last.node.id, last.rainbow) = << >>
    /\ source.stylized = << >>

(* C4: once a file was reloaded, no highlight_node is executed for a node  *)
(* of a tree that the reload replaced: every execution is for a node of    *)
(* the view that is in the DOM when it happens.                            *)
C4_ReloadCancels ==
    \A i \in DOMAIN runs : runs[i].node.gen = runs[i].viewGen


(* C22: node-highlighted and node-selected events of a tree other than    *)
(* the AST view (the directory tree) leave the scheduler as it is: no      *)
(* timer is armed or stopped, _refresh keeps its value, no compose-and-    *)
(* render step runs, and NodeInfo, the Source and its scroll stay as they  *)
(* are.                                                                    *)
C22_OtherTree ==
    [][(DirCursorMoved \/ DirNodeChosen) =>
          UNCHANGED << refresh, timers, runs, source, scrolls, shown, failure >>]_vars

\* three inputs were handled in the first view, of which one armed the
\* timer that is still pending while time has passed, and the two others,
\* which can only have come from the directory tree, armed no timer and ran
\* no step
C22_Witness ==
    /\ hasView /\ failure = "none"
    /\ Len(views) = 1
    /\ nEvents = 3
    /\ Len(timers) = 1 /\ refresh = 1 /\ Pending(1)
    /\ timers[1].armedAt < now
    /\ Len(runs) = 1 /\ runs[1].via = "init"
    /\ ~rainbow

(* C23: a toggle of the rainbow flag, in a screen whose AST view has a     *)
(* cursor node, at once composes the highlight of that node anew with the  *)
(* new value of the flag, and no toggle arms, stops or forgets a timer;    *)
(* the step a timer runs at its deadline and the step a selection runs at  *)
(* once compose with the value the flag has when the step runs, whatever   *)
(* it was when the timer was armed.  (A toggle without a cursor node is    *)
(* the case of C15.)                                                       *)
C23_RainbowNow ==
    [][/\ rainbow' # rainbow => UNCHANGED << refresh, timers >>
       /\ (rainbow' # rainbow /\ hasView /\ CurView.cursor # 0) =>
             /\ failure' = "none"
             /\ source'.stylized = Emitted(CurView.nodes, CurView.cursor, rainbow')
             /\ source'.stylized = Emitted(CurView.nodes, CurView.cursor, ~rainbow)
       /\ \A k \in DOMAIN timers :
             (~timers[k].fired /\ timers'[k].fired) =>
                /\ rainbow' = rainbow
                /\ source'.stylized =
                      Emitted(views[timers[k].node.gen].nodes, timers[k].node.id, rainbow)
       /\ (Len(runs') > Len(runs) /\ runs'[Len(runs')].via = "selected") =>
             /\ rainbow' = rainbow
             /\ source'.stylized =
                   Emitted(CurView.nodes, runs'[Len(runs')].node.id, rainbow)
      ]_vars

\* the flag was off when the timer was armed and was turned on, once, while
\* the timer was pending; at its deadline the timer composed a rainbow
\* highlight, with ranges for the ancestors of its node
C23_Witness ==
    /\ Len(views) = 1 /\ failure = "none"
    /\ Len(runs) = 3
    /\ runs[1].via = "init"
    /\ runs[2].via = "rainbow" /\ runs[2].rainbow
    /\ runs[3].via = "timer" /\ runs[3].rainbow
    /\ timers[runs[3].timer].armedAt < runs[2].at
    /\ runs[2].at < runs[3].at
    /\ rainbow
    /\ Len(source.stylized) > 1

-----------------------------------------------------------------------------
(* The ASTView, under SpecView. *)

(* C11: when the module did not parse the tree is exactly one node, the    *)
(* root, which stands for the file and is not expandable, and no error was *)
(* raised in building it.                                                  *)
C11_AbsentAst ==
    CurView.module = NoModule =>
       /\ Len(Nodes) = 1
       /\ Nodes[1].parent = 0
       /\ Nodes[1].children = << >>
       /\ Nodes[1].label = file.name
       /\ failure = "none"
       /\ ~Nodes[1].allow_expand


(* C13: after any sequence of loads and resets the root stands for the     *)
(* file loaded last (its name as label, its path as payload), parsed or    *)
(* not, and the nodes below it are those of the AST of that file and no    *)
(* others: one node per AST node of the file, in the order of a walk of    *)
(* it, each with the labels of its shown fields below it, and nothing at   *)
(* all when the file did not parse.                                        *)
C13_ResetReplaces ==
    /\ Nodes[1].label = file.name
    /\ Nodes[1].data = [t |-> "path", v |-> file.name]
    /\ Nodes[1].parent = 0
    /\ CurView.module = file.ast
    /\ IF file.ast = NoModule
       THEN Len(Nodes) = 1
       ELSE LET items == AstItems(file.ast)
                astNodes == AstNodes(Nodes)
            IN  /\ Len(astNodes) = Len(items)
                /\ \A k \in DOMAIN items :
                      /\ Nodes[astNodes[k]].data = AstData(items[k])
                      /\ [ j \in DOMAIN Nodes[astNodes[k]].children |->
                             Nodes[Nodes[astNodes[k]].children[j]].label ]
                            = ShownFields(items[k])
                /\ \A n \in DOMAIN Nodes :
                      n # 1 => Nodes[n].parent \in 1..(n - 1)

\* a view made for one module was reset to another module that parses
C13_Witness ==
    /\ module_path(CurView) # file.name
    /\ module_path(CurView) # BadFile.name
    /\ file # BadFile
    /\ Len(Nodes) > 1
    /\ Nodes[1].label = file.name

(* C14: module_path is the path of the module being shown: it is that of   *)
(* the module loaded last, and it is the payload of the root.              *)
C14_ModulePath ==
    /\ module_path(CurView) = file.name
    /\ module_path(CurView) = Nodes[1].data.v

(* C20: the label of the display node of an AST node is the kind name,     *)
(* followed by " (name)" with the definition's name exactly when name_defs *)
(* is on and the kind is ClassDef, FunctionDef or AsyncFunctionDef; with   *)
(* name_defs off, and for every other kind, it is the kind name alone.     *)
C20_Labels ==
    CurView.module # NoModule =>
       LET items == AstItems(CurView.module)
           astNodes == AstNodes(Nodes)
       IN  /\ Len(astNodes) = Len(items)
           /\ \A k \in DOMAIN items :
                 Nodes[astNodes[k]].label =
                    IF CurView.name_defs
                       /\ items[k].kind \in {"ClassDef", "FunctionDef", "AsyncFunctionDef"}
                    THEN items[k].kind \o " (" \o GetAttr(items[k], "name").v \o ")"
                    ELSE items[k].kind

\* with name_defs on, after a reset to the module of definitions: the
\* function and the coroutine function carry their names, the alias, which
\* has a name too, does not
C20_Witness ==
    /\ CurView.name_defs
    /\ module_path(CurView) = "mS.py"
    /\ file.name = "defs.py"
    /\ { "FunctionDef (f)", "AsyncFunctionDef (g)", "alias", "Import", "Pass" }
          \subseteq { Nodes[n].label : n \in DOMAIN Nodes }
    /\ "alias (os)" \notin { Nodes[n].label : n \in DOMAIN Nodes }

\* with name_defs off the same definitions are labelled by kind alone
C20_WitnessOff ==
    /\ ~CurView.name_defs
    /\ file.name = "defs.py"
    /\ { "FunctionDef", "AsyncFunctionDef", "alias" }
          \subseteq { Nodes[n].label : n \in DOMAIN Nodes }

-----------------------------------------------------------------------------
(* The breadcrumb, under SpecWidgets. *)

\* the labels of the nodes from node up to the root
LabelsToRoot(nodes, node) ==
    LET path == PathToRoot(nodes, node)
    IN  [ i \in DOMAIN path |-> nodes[path[i]].label ]

-----------------------------------------------------------------------------
(* The projection of values, under SpecWidgets. *)

RECURSIVE Flat(_)
\* the values of a value that are no sequences: the value itself, or those
\* of the elements of a list or tuple, in element order
Flat(value) ==
    IF value.t \in {"list", "tuple"}
    THEN Concat([i \in DOMAIN value.items |-> Flat(value.items[i])])
    ELSE << value >>

\* is display node n the projection of the value e, which is no sequence?
ProjectionOf(n, e) ==
    IF e.t = "ast"
    THEN Nodes[n].data = AstData(e)
    ELSE /\ Nodes[n].data = e
         /\ Nodes[n].label = Repr(e)
         /\ Nodes[n].children = << >>

(* C18: a sequence value gets no display node of its own: below the label  *)
(* of every shown field of every AST node are the projections of the       *)
(* field's value, if it is no sequence, or of its elements, one child per  *)
(* element and in element order; and the labels of the fields of a node    *)
(* are in the order the fields are declared in.  (A highlight leaves the   *)
(* tree as it is, so the tree is examined before it.)                      *)
C18_Flattening ==
    (~Called /\ CurView.module # NoModule) =>
       LET items == AstItems(CurView.module)
           astNodes == AstNodes(Nodes)
       IN  /\ Len(astNodes) = Len(items)
           /\ \A n \in DOMAIN Nodes : Nodes[n].data.t \in {"path", "ast", "field", "scalar"}
           /\ \A n \in DOMAIN Nodes :
                 \A i \in 1..(Len(Nodes[n].children) - 1) :
                    Nodes[n].children[i] < Nodes[n].children[i + 1]
           /\ \A k \in DOMAIN items :
                 LET node == Nodes[astNodes[k]]
                     names == ShownFields(items[k])
                 IN  /\ Len(node.children) = Len(names)
                     /\ \A j \in DOMAIN names :
                           LET fieldNode == Nodes[node.children[j]]
                               expected == Flat(GetAttr(items[k], names[j]))
                           IN  /\ fieldNode.label = names[j]
                               /\ Len(fieldNode.children) = Len(expected)
                               /\ \A i \in DOMAIN expected :
                                     ProjectionOf(fieldNode.children[i], expected[i])

\* a tree in which the two statements of a body are the two children of
\* the node labelled body, the class first, and in which the two elements
\* of a tuple are the two leaves below the node labelled value
C18_Witness ==
    /\ CurView.module # NoModule
    /\ \E n \in DOMAIN Nodes :
          /\ Nodes[n].label = "body"
          /\ Len(Nodes[n].children) = 2
          /\ Nodes[Nodes[n].children[1]].label = "ClassDef (C)"
          /\ Nodes[Nodes[n].children[2]].label = "Pass"
    /\ \E n \in DOMAIN Nodes :
          /\ Nodes[n].label = "value"
          /\ Len(Nodes[n].children) = 2
          /\ Nodes[Nodes[n].children[1]].label = "1"
          /\ Nodes[Nodes[n].children[2]].label = "'a'"


(* C19: in every projected tree a node is non-expandable exactly when it   *)
(* has no children: the scalar leaves and the AST nodes without fields are *)
(* non-expandable, and every node left expandable has at least one child.  *)
C19_Expandable ==
    (~Called /\ CurView.module # NoModule) =>
       \A n \in DOMAIN Nodes : Nodes[n].allow_expand <=> Nodes[n].children # << >>

-----------------------------------------------------------------------------
(* The scroll request, under SpecWidgets. *)

\* the primary instructions among the ranges of the Source, as spans
\* << start_line, start_col, end_line, end_col >>
PrimarySpans ==
    { << source.stylized[i].start[1], source.stylized[i].start[2],
         source.stylized[i].end[1], source.stylized[i].end[2] >> :
        i \in { j \in DOMAIN source.stylized : source.stylized[j].style = PrimaryStyle } }

(* C21: whenever highlight emits a primary instruction for a span          *)
(* (start_line, start_col, end_line, end_col) it makes exactly one scroll  *)
(* request, for the region at row start_line - 1 of height                 *)
(* end_line - start_line + 1; for a valid span (end_line >= start_line     *)
(* >= 1) the row is not negative, the height is at least 1 and every line  *)
(* of the span, as a row, lies within the region.                          *)
C21_ScrollRegion ==
    Called =>
       \A span \in PrimarySpans :
          /\ Len(scrolls) = 1
          /\ scrolls[1].y = span[1] - 1
          /\ scrolls[1].height = (span[3] - span[1]) + 1
          /\ (span[3] >= span[1] /\ span[1] >= 1) =>
                /\ scrolls[1].y >= 0
                /\ scrolls[1].height >= 1
                /\ \A line \in span[1]..span[3] :
                      /\ scrolls[1].y <= line - 1
                      /\ line - 1 < scrolls[1].y + scrolls[1].height

\* a highlight whose primary instruction is for a valid span of several
\* lines, with its scroll request
C21_Witness ==
    /\ Called
    /\ \E span \in PrimarySpans : span[1] >= 1 /\ span[3] > span[1] + 1
    /\ Len(scrolls) = 1
    /\ scrolls[1].height > 2

\* the same for a span of one line, which is the first of the file
C21_WitnessLine ==
    /\ Called
    /\ \E span \in PrimarySpans : span[1] = 1 /\ span[3] = 1
    /\ scrolls = << [y |-> 0, height |-> 1] >>

=============================================================================
